---- MODULE Spec2Model ----
(***************************************************************************)
(* Model of the resource simulation of Project2: Resources guarded by a    *)
(* semaphore (resource.c), Systems that convert and store resources in a   *)
(* thread each (system.c), and the priority EventQueue the Systems report  *)
(* to (event.c).  Each System thread is a process whose position is pc[w]; *)
(* every semaphore operation, every access to a shared Resource amount and *)
(* every sleep is a step of its own.                                       *)
(***************************************************************************)
EXTENDS Integers, Sequences, FiniteSets, TLC

\* ------------------------------------------------------------------ bounds
MaxCap == 2        \* largest max_capacity of a Resource
MaxAmt == 2        \* largest consumed.amount / produced.amount of a System
MaxQueue == 1      \* a System starts a push only while the queue holds fewer events
MaxPushes == 3     \* events the producers of QSpec push in all
MaxPrio == 2       \* priorities 1..MaxPrio in QSpec

\* ------------------------------------------------------- program constants
\* defs.h is not part of the sources; only the order LOW < HIGH is used.
PRIORITY_LOW == 1
PRIORITY_HIGH == 3

STATUS_OK == "STATUS_OK"
STATUS_EMPTY == "STATUS_EMPTY"
STATUS_INSUFFICIENT == "STATUS_INSUFFICIENT"
STATUS_CAPACITY == "STATUS_CAPACITY"
NONE == "NONE"                      \* no result yet (ghost value)

STANDARD == "STANDARD"
TERMINATE == "TERMINATE"

NULL == 0                           \* the null Resource pointer
Resources == {1, 2}
Workers == {1, 2}                   \* the System threads
Monitor == 0                        \* the thread that pops the queue

VARIABLES
    max_capacity,      \* Resource.max_capacity
    consumed,          \* System.consumed  : [resource, amount]
    produced,          \* System.produced  : [resource, amount]
    initial_amount,    \* ghost: Resource.amount at creation
    amount,            \* Resource.amount
    resource_mutex,    \* Resource.resource_mutex, the semaphore's value
    held,              \* ghost: the Resources whose semaphore a worker took and did not post
    amount_stored,     \* System.amount_stored
    status,            \* System.status
    pc,                \* position of each System thread
    available_space,   \* local of system_store_resources
    event,             \* local Event of system_run
    queue,             \* EventQueue: the list from head to tail
    size,              \* EventQueue.size
    eventQueue_mutex,  \* EventQueue.eventQueue_mutex, the semaphore's value
    qheld,             \* ghost: threads that took the queue semaphore and did not post
    seen,              \* the list as a thread inside push or pop read it (its local pointers)
    mpc,               \* position of the monitor thread
    mevent,            \* the monitor's output Event of event_queue_pop
    mret,              \* the last return value of event_queue_pop
    crashed,           \* the process died on a null dereference
    cycle,             \* the current system_run call of a worker: result_status after
                       \* system_convert (cv) and after system_store_resources (st),
                       \* and (ghost) the Events it handed to event_queue_push
    removed,           \* ghost: total taken by successful consumes from a Resource nobody produces
    pushed,            \* ghost (QSpec): events in the order they were inserted
    popped,            \* ghost (QSpec): events in the order they were popped
    created,           \* ghost (QSpec): number of events the producers made
    scenario,          \* the scenario that was loaded: its name and its number of cycles
    runs               \* (scenarios) calls of system_run a worker's driver has made

cfgv == <<max_capacity, consumed, produced, initial_amount, scenario>>
resv == <<amount, resource_mutex, held>>
locv == <<amount_stored, available_space, event>>
quev == <<queue, size, eventQueue_mutex, qheld, seen>>
monv == <<mpc, mevent, mret>>
logv == <<pushed, popped, created, runs>>
vars == <<cfgv, resv, locv, quev, monv, logv, status, pc, crashed, cycle, removed>>

\* ------------------------------------------------------------------ events
\* event_init: an Event is a plain copy of its five arguments.
event_init(system, resource, st, priority, amt) ==
    [system |-> system, resource |-> resource, status |-> st,
     priority |-> priority, amount |-> amt]

NoEvent == event_init(0, NULL, NONE, 0, 0)

NewCycle == [cv |-> NONE, st |-> NONE, events |-> <<>>]

\* ----------------------------------------------------------- Resource amount
ResourceAmount(r, a) == [resource |-> r, amount |-> a]

\* A second `if` that tests >= 0: it stores also when nothing is waiting.
SecondIf_ge(stored) == IF stored >= 0 THEN "st_wait" ELSE "loop"

\* What the second `if` of system_run does with amount_stored.
SecondIf(stored) == IF stored > 0 THEN "st_wait" ELSE "loop"

NoProducer(r) == \A w \in Workers : produced[w].resource # r

\* --------------------------------------------------------------- semaphores
\* sem_wait returns only after it has decremented a positive value.
sem_wait_enabled(value) == value > 0

sem_wait(value) == value - 1

\* A post that counts twice.
sem_post_twice(value) == value + 2

\* sem_post increments the value.
sem_post(value) == value + 1

\* ------------------------------------------------------------ configuration
\* The shapes of load_data (main.c), scaled down to two Resources and two
\* Systems: a chain whose end produces nothing (Life Support, Crew), two
\* Systems consuming the same Resource (Propulsion, Generator), a cycle, and a
\* System created with a null consumed Resource.
Topologies ==
    { [consumed |-> (1 :> ResourceAmount(1, 1) @@ 2 :> ResourceAmount(2, 1)),
       produced |-> (1 :> ResourceAmount(2, MaxAmt) @@ 2 :> ResourceAmount(NULL, 0))],
      [consumed |-> (1 :> ResourceAmount(1, MaxAmt) @@ 2 :> ResourceAmount(1, 1)),
       produced |-> (1 :> ResourceAmount(2, 1) @@ 2 :> ResourceAmount(2, 1))],
      [consumed |-> (1 :> ResourceAmount(1, 1) @@ 2 :> ResourceAmount(2, 1)),
       produced |-> (1 :> ResourceAmount(2, 1) @@ 2 :> ResourceAmount(1, MaxAmt))],
      [consumed |-> (1 :> ResourceAmount(NULL, 0) @@ 2 :> ResourceAmount(1, MaxAmt)),
       produced |-> (1 :> ResourceAmount(1, 1) @@ 2 :> ResourceAmount(NULL, 0))] }

\* resource_create: amount and max_capacity as given, the semaphore at 1.
\* The model creates Resources with 0 <= amount <= max_capacity.
Capacities == (1 :> MaxCap @@ 2 :> MaxCap - 1)

\* event_queue_init sets head and the semaphore and leaves `size` as it finds
\* it: the field starts with whatever the memory held.
UninitSize == {0, 1}

\* The whole program (main.c), not a scenario with a fixed number of cycles.
NoScenario == [name |-> "main", cycles |-> 0]

\* system_create: status STANDARD, amount_stored 0.
InitCommon ==
    /\ resource_mutex = [r \in Resources |-> 1]
    /\ held = [w \in Workers |-> {}]
    /\ amount_stored = [w \in Workers |-> 0]
    /\ status = [w \in Workers |-> STANDARD]
    /\ available_space = [w \in Workers |-> 0]
    /\ event = [w \in Workers |-> NoEvent]
    /\ queue = <<>>
    /\ size \in UninitSize
    /\ eventQueue_mutex = 1
    /\ qheld = {}
    /\ seen = [t \in Workers \cup {Monitor} |-> <<>>]
    /\ mpc = "m_idle"
    /\ mevent = NoEvent
    /\ mret = 0
    /\ crashed = FALSE
    /\ cycle = [w \in Workers |-> NewCycle]
    /\ removed = [r \in Resources |-> 0]
    /\ pushed = <<>>
    /\ popped = <<>>
    /\ created = 0
    /\ runs = [w \in Workers |-> 0]

Init ==
    /\ \E t \in Topologies :
            /\ consumed = t.consumed
            /\ produced = t.produced
    /\ max_capacity = Capacities
    /\ amount \in {a \in [Resources -> 0..MaxCap] : \A r \in Resources : a[r] <= Capacities[r]}
    /\ initial_amount = amount
    /\ scenario = NoScenario
    /\ pc = [w \in Workers |-> "loop"]
    /\ InitCommon

\* ------------------------------------------------------------ system_thread
\* A system_run without the test amount_stored == 0 of line 92: it converts
\* in every cycle, also while output is waiting to be stored.
system_thread_always_convert(w) ==
    /\ ~crashed
    /\ pc[w] = "loop"
    /\ IF status[w] = TERMINATE
       THEN /\ pc' = [pc EXCEPT ![w] = "done"]
            /\ UNCHANGED cycle
       ELSE /\ pc' = [pc EXCEPT ![w] = "cv_wait"]
            /\ cycle' = [cycle EXCEPT ![w] = NewCycle]
    /\ UNCHANGED <<cfgv, resv, locv, quev, monv, logv, status, crashed, removed>>

\* while (system->status != TERMINATE) system_run(system);  and the first
\* `if` of system_run, both on data only this thread writes or reads once.
system_thread(w) ==
    /\ ~crashed
    /\ pc[w] = "loop"
    /\ IF status[w] = TERMINATE
       THEN /\ pc' = [pc EXCEPT ![w] = "done"]
            /\ UNCHANGED cycle
       ELSE /\ pc' = [pc EXCEPT ![w] = IF amount_stored[w] = 0 THEN "cv_wait"
                                       ELSE SecondIf(amount_stored[w])]
            /\ cycle' = [cycle EXCEPT ![w] = NewCycle]
    /\ UNCHANGED <<cfgv, resv, locv, quev, monv, logv, status, crashed, removed>>

\* The orchestrator (manager.c, not among the sources) stops a System by
\* writing TERMINATE to its status.
SetTerminate(w) ==
    /\ ~crashed
    /\ status[w] # TERMINATE
    /\ status' = [status EXCEPT ![w] = TERMINATE]
    /\ UNCHANGED <<cfgv, resv, locv, quev, monv, logv, pc, crashed, cycle, removed>>

\* sem_wait(&r->resource_mutex) with r == NULL (system.c 133 and 204 take the
\* semaphore before they test the pointer): the access faults and the process
\* ends.
NullDeref(w) ==
    /\ ~crashed
    /\ \/ pc[w] = "cv_wait" /\ consumed[w].resource = NULL
       \/ pc[w] = "st_wait" /\ produced[w].resource = NULL
    /\ crashed' = TRUE
    /\ UNCHANGED <<cfgv, resv, locv, quev, monv, logv, status, pc, cycle, removed>>

\* ----------------------------------------------------------- system_convert
\* A lock that does not exclude: the thread goes on whatever the value is.
ResourceLock_nowait(w, r, at, next) ==
    /\ ~crashed
    /\ pc[w] = at
    /\ r # NULL
    /\ resource_mutex' = [resource_mutex EXCEPT ![r] = sem_wait(@)]
    /\ held' = [held EXCEPT ![w] = @ \cup {r}]
    /\ pc' = [pc EXCEPT ![w] = next]

\* The lock protocol of a Resource operation: take the semaphore.
ResourceLock(w, r, at, next) ==
    /\ ~crashed
    /\ pc[w] = at
    /\ r # NULL
    /\ sem_wait_enabled(resource_mutex[r])
    /\ resource_mutex' = [resource_mutex EXCEPT ![r] = sem_wait(@)]
    /\ held' = [held EXCEPT ![w] = @ \cup {r}]
    /\ pc' = [pc EXCEPT ![w] = next]

\* line 133
convert_wait(w) ==
    /\ ResourceLock(w, consumed[w].resource, "cv_wait", "cv_check")
    /\ UNCHANGED <<cfgv, amount, locv, quev, monv, logv, status, crashed, cycle, removed>>

\* The test with EMPTY and INSUFFICIENT the wrong way round.
ConsumeStatus_swapped(a, n) ==
    IF a >= n THEN STATUS_OK
    ELSE IF a = 0 THEN STATUS_INSUFFICIENT ELSE STATUS_EMPTY

\* The test with > for >=: a Resource holding exactly `n` is refused.
ConsumeStatus_strict(a, n) ==
    IF a > n THEN STATUS_OK
    ELSE IF a = 0 THEN STATUS_EMPTY ELSE STATUS_INSUFFICIENT

\* The outcome of the test of line 139 / 143 on a Resource holding `a`.
ConsumeStatus(a, n) ==
    IF a >= n THEN STATUS_OK
    ELSE IF a = 0 THEN STATUS_EMPTY ELSE STATUS_INSUFFICIENT

\* lines 135-145 (the test), and for a failure lines 147, 158, 159.
convert_check(w) ==
    LET r == consumed[w].resource
        st == IF r = NULL THEN STATUS_OK ELSE ConsumeStatus(amount[r], consumed[w].amount)
    IN  /\ ~crashed
        /\ pc[w] = "cv_check"
        /\ IF st = STATUS_OK
           THEN /\ pc' = [pc EXCEPT ![w] = IF r = NULL THEN "cv_sleep" ELSE "cv_dec"]
                /\ UNCHANGED <<resource_mutex, held, cycle>>
           ELSE /\ resource_mutex' = [resource_mutex EXCEPT ![r] = sem_post(@)]
                /\ held' = [held EXCEPT ![w] = @ \ {r}]
                /\ cycle' = [cycle EXCEPT ![w].cv = st]
                /\ pc' = [pc EXCEPT ![w] = "cv_event"]
        /\ UNCHANGED <<cfgv, amount, amount_stored, available_space, event, quev,
                       monv, logv, status, crashed, removed>>

\* line 140: consumed_resource->amount -= amount_consumed, then the thread
\* enters system_simulate_process_time (line 148) and sleeps.
convert_consume(w) ==
    LET r == consumed[w].resource
    IN  /\ ~crashed
        /\ pc[w] = "cv_dec"
        /\ amount' = [amount EXCEPT ![r] = @ - consumed[w].amount]
        /\ removed' = [removed EXCEPT ![r] = IF NoProducer(r) THEN @ + consumed[w].amount ELSE @]
        /\ pc' = [pc EXCEPT ![w] = "cv_sleep"]
        /\ UNCHANGED <<cfgv, resource_mutex, held, locv, quev, monv, logv, status,
                       crashed, cycle>>

\* A conversion that credits the produced amount twice.
ConvertStored_twice(stored, p) ==
    IF p.resource # NULL THEN stored + 2 * p.amount ELSE 0

\* lines 150-155: what a successful conversion leaves in amount_stored.
ConvertStored(stored, p) ==
    IF p.resource # NULL THEN stored + p.amount ELSE 0

\* The sleep of line 148 ends; lines 150-159; then the second `if` of
\* system_run.
convert_finish(w) ==
    LET r == consumed[w].resource
        stored == ConvertStored(amount_stored[w], produced[w])
    IN  /\ ~crashed
        /\ pc[w] = "cv_sleep"
        /\ amount_stored' = [amount_stored EXCEPT ![w] = stored]
        /\ resource_mutex' = [resource_mutex EXCEPT ![r] = sem_post(@)]
        /\ held' = [held EXCEPT ![w] = @ \ {r}]
        /\ cycle' = [cycle EXCEPT ![w].cv = STATUS_OK]
        /\ pc' = [pc EXCEPT ![w] = SecondIf(stored)]
        /\ UNCHANGED <<cfgv, amount, available_space, event, quev,
                       monv, logv, status, crashed, removed>>

\* line 98: the Event of a failed consume; the Resource's amount is read
\* after the semaphore was posted.
report_consume_failure(w) ==
    LET r == consumed[w].resource
    IN  /\ ~crashed
        /\ pc[w] = "cv_event"
        /\ event' = [event EXCEPT ![w] =
                        event_init(w, r, cycle[w].cv, PRIORITY_HIGH, amount[r])]
        /\ pc' = [pc EXCEPT ![w] = "cv_push_wait"]
        /\ UNCHANGED <<cfgv, resv, amount_stored, available_space,
                       quev, monv, logv, status, crashed, cycle, removed>>

\* --------------------------------------------------- system_store_resources
\* line 204
store_wait(w) ==
    /\ ResourceLock(w, produced[w].resource, "st_wait", "st_check")
    /\ UNCHANGED <<cfgv, amount, locv, quev, monv, logv, status, crashed, cycle, removed>>

\* lines 206-214: the early return (which posts nothing), else the read of
\* the free space.
store_check(w) ==
    LET r == produced[w].resource
    IN  /\ ~crashed
        /\ pc[w] = "st_check"
        /\ IF r = NULL \/ amount_stored[w] = 0
           THEN /\ amount_stored' = [amount_stored EXCEPT ![w] = 0]
                /\ cycle' = [cycle EXCEPT ![w].st = STATUS_OK]
                /\ pc' = [pc EXCEPT ![w] = "loop"]
                /\ UNCHANGED available_space
           ELSE /\ available_space' = [available_space EXCEPT ![w] = max_capacity[r] - amount[r]]
                /\ pc' = [pc EXCEPT ![w] = "st_update"]
                /\ UNCHANGED <<amount_stored, cycle>>
        /\ UNCHANGED <<cfgv, resv, event, quev, monv, logv, status,
                       crashed, removed>>

\* A store that ignores the free space.
StoreAdded_unclamped(space, to_store) == to_store

\* lines 216-224: how much of amount_to_store goes into the Resource.
StoreAdded(space, to_store) ==
    IF space >= to_store THEN to_store
    ELSE IF space > 0 THEN space ELSE 0

\* A partial store that does not take what it stored off amount_stored.
StoreLeft_keepall(space, to_store) ==
    IF space >= to_store THEN 0 ELSE to_store

\* lines 219, 223: what is left in amount_stored.
StoreLeft(space, to_store) ==
    IF space >= to_store THEN 0
    ELSE IF space > 0 THEN to_store - space ELSE to_store

\* A store that posts the semaphore on every return, also on STATUS_CAPACITY.
StorePosts_always(left) == TRUE

\* lines 226-231: does system_store_resources post the semaphore before it
\* returns, given what is left in amount_stored?
StorePosts(left) == left = 0

\* lines 216-231: the update, then the return; STATUS_CAPACITY is returned at
\* line 227, before the sem_post of line 230.
store_update(w) ==
    LET r == produced[w].resource
        left == StoreLeft(available_space[w], amount_stored[w])
        st == IF left # 0 THEN STATUS_CAPACITY ELSE STATUS_OK
    IN  /\ ~crashed
        /\ pc[w] = "st_update"
        /\ amount' = [amount EXCEPT ![r] = @ + StoreAdded(available_space[w], amount_stored[w])]
        /\ amount_stored' = [amount_stored EXCEPT ![w] = left]
        /\ available_space' = [available_space EXCEPT ![w] = 0]
        /\ cycle' = [cycle EXCEPT ![w].st = st]
        /\ IF StorePosts(left)
           THEN /\ resource_mutex' = [resource_mutex EXCEPT ![r] = sem_post(@)]
                /\ held' = [held EXCEPT ![w] = @ \ {r}]
           ELSE UNCHANGED <<resource_mutex, held>>
        /\ pc' = [pc EXCEPT ![w] = IF st = STATUS_OK THEN "loop" ELSE "st_event"]
        /\ UNCHANGED <<cfgv, event, quev, monv, logv, status, crashed, removed>>

\* The Event of a store failure sent with the priority of a consume failure.
report_store_failure_high(w) ==
    LET r == produced[w].resource
    IN  /\ ~crashed
        /\ pc[w] = "st_event"
        /\ event' = [event EXCEPT ![w] =
                        event_init(w, r, cycle[w].st, PRIORITY_HIGH, amount[r])]
        /\ pc' = [pc EXCEPT ![w] = "st_push_wait"]
        /\ UNCHANGED <<cfgv, resv, amount_stored, available_space,
                       quev, monv, logv, status, crashed, cycle, removed>>

\* line 110: the Event of a store that left something unstored.
report_store_failure(w) ==
    LET r == produced[w].resource
    IN  /\ ~crashed
        /\ pc[w] = "st_event"
        /\ event' = [event EXCEPT ![w] =
                        event_init(w, r, cycle[w].st, PRIORITY_LOW, amount[r])]
        /\ pc' = [pc EXCEPT ![w] = "st_push_wait"]
        /\ UNCHANGED <<cfgv, resv, amount_stored, available_space,
                       quev, monv, logv, status, crashed, cycle, removed>>

\* --------------------------------------------------------- event_queue_push
RECURSIVE PushWalk(_, _, _)
\* lines 98-101: curr advances while the next node's priority is >= the new one.
PushWalk(q, curr, priority) ==
    IF curr + 1 <= Len(q) /\ q[curr + 1].priority >= priority
    THEN PushWalk(q, curr + 1, priority)
    ELSE curr

\* An insertion that puts the node before a head of equal priority.
PushInsert_le(q, e) ==
    IF q = <<>> \/ q[1].priority <= e.priority
    THEN <<e>> \o q
    ELSE LET curr == PushWalk(q, 1, e.priority)
         IN  SubSeq(q, 1, curr) \o <<e>> \o SubSeq(q, curr + 1, Len(q))

\* lines 93-104: the list after the node is linked in.
PushInsert(q, e) ==
    IF q = <<>> \/ q[1].priority < e.priority
    THEN <<e>> \o q
    ELSE LET curr == PushWalk(q, 1, e.priority)
         IN  SubSeq(q, 1, curr) \o <<e>> \o SubSeq(q, curr + 1, Len(q))

\* A queue lock that does not exclude.
QueueLock_nowait(t) ==
    /\ ~crashed
    /\ eventQueue_mutex' = sem_wait(eventQueue_mutex)
    /\ qheld' = qheld \cup {t}

\* The lock protocol of a queue operation: take the queue's semaphore.
QueueLock(t) ==
    /\ ~crashed
    /\ sem_wait_enabled(eventQueue_mutex)
    /\ eventQueue_mutex' = sem_wait(eventQueue_mutex)
    /\ qheld' = qheld \cup {t}

QueueUnlock(t) ==
    /\ eventQueue_mutex' = sem_post(eventQueue_mutex)
    /\ qheld' = qheld \ {t}

\* line 78
event_queue_push_wait(t, at, next) ==
    /\ pc[t] = at
    /\ QueueLock(t)
    /\ pc' = [pc EXCEPT ![t] = next]
    /\ UNCHANGED <<queue, size, seen>>

\* A push that returns on a failed malloc without the sem_post of line 85.
event_queue_push_alloc_nopost(t, at, next, ret, ok) ==
    /\ ~crashed
    /\ pc[t] = at
    /\ IF ok
       THEN /\ seen' = [seen EXCEPT ![t] = queue]
            /\ pc' = [pc EXCEPT ![t] = next]
       ELSE /\ pc' = [pc EXCEPT ![t] = ret]
            /\ UNCHANGED seen
    /\ UNCHANGED <<queue, size, eventQueue_mutex, qheld>>

\* lines 81-101: malloc (`ok` is whether it returned a node); without a node
\* the semaphore is posted and the push returns (lines 84-86), with one the
\* list is read to find the node's place.
event_queue_push_alloc(t, at, next, ret, ok) ==
    /\ ~crashed
    /\ pc[t] = at
    /\ IF ok
       THEN /\ seen' = [seen EXCEPT ![t] = queue]
            /\ pc' = [pc EXCEPT ![t] = next]
            /\ UNCHANGED <<eventQueue_mutex, qheld>>
       ELSE /\ QueueUnlock(t)
            /\ pc' = [pc EXCEPT ![t] = ret]
            /\ UNCHANGED seen
    /\ UNCHANGED <<queue, size>>

\* lines 94-109: the node is linked in, size++, sem_post.
event_queue_push_link(t, at, ret) ==
    /\ ~crashed
    /\ pc[t] = at
    /\ queue' = PushInsert(seen[t], event[t])
    /\ size' = size + 1
    /\ seen' = [seen EXCEPT ![t] = <<>>]
    /\ QueueUnlock(t)
    /\ pc' = [pc EXCEPT ![t] = ret]

\* ---------------------------------------------------------- event_queue_pop
\* line 124
event_queue_pop_wait ==
    /\ mpc = "m_idle"
    /\ QueueLock(Monitor)
    /\ mpc' = "m_pop"
    /\ UNCHANGED <<queue, size, seen>>

\* A pop that returns 0 on an empty queue and forgets the sem_post of line 126.
event_queue_pop_read_nopost ==
    /\ ~crashed
    /\ mpc = "m_pop"
    /\ IF queue = <<>>
       THEN /\ mpc' = "m_idle"
            /\ UNCHANGED <<seen, eventQueue_mutex, qheld>>
       ELSE /\ seen' = [seen EXCEPT ![Monitor] = queue]
            /\ mpc' = "m_unlink"
            /\ UNCHANGED <<eventQueue_mutex, qheld>>
    /\ UNCHANGED <<queue, size>>

\* lines 125-128: the test of head; an empty queue posts and returns 0.
event_queue_pop_read ==
    /\ ~crashed
    /\ mpc = "m_pop"
    /\ IF queue = <<>>
       THEN /\ QueueUnlock(Monitor)
            /\ mpc' = "m_idle"
            /\ UNCHANGED seen
       ELSE /\ seen' = [seen EXCEPT ![Monitor] = queue]
            /\ mpc' = "m_unlink"
            /\ UNCHANGED <<eventQueue_mutex, qheld>>
    /\ UNCHANGED <<queue, size>>

\* line 130: the Event copied to the caller.
PopEvent(q) == Head(q)

\* lines 132-133: the list after the head is unlinked.
PopRest(q) == Tail(q)

\* lines 130-143: the head is copied out and unlinked, size--, sem_post,
\* return 1.
event_queue_pop_unlink ==
    /\ ~crashed
    /\ mpc = "m_unlink"
    /\ queue' = PopRest(seen[Monitor])
    /\ size' = size - 1
    /\ seen' = [seen EXCEPT ![Monitor] = <<>>]
    /\ QueueUnlock(Monitor)
    /\ mpc' = "m_idle"

\* ------------------------------------------- system_run: pushing and backoff
\* lines 99 and 111: the call of event_queue_push, up to its sem_wait.  (The
\* queue is bounded in the model: a System starts a push only while the queue
\* holds fewer than MaxQueue events.)
run_push_wait(w) ==
    /\ Len(queue) < MaxQueue
    /\ \/ event_queue_push_wait(w, "cv_push_wait", "cv_push_alloc")
       \/ event_queue_push_wait(w, "st_push_wait", "st_push_alloc")
    /\ UNCHANGED <<cfgv, resv, locv, monv, logv, status, crashed, cycle, removed>>

\* event_queue_push up to the search of the list; when malloc fails the call
\* is over and the thread sleeps (lines 101, 113).
run_push_alloc(w) ==
    /\ \E ok \in BOOLEAN :
          /\ \/ event_queue_push_alloc(w, "cv_push_alloc", "cv_push_link", "cv_backoff", ok)
             \/ event_queue_push_alloc(w, "st_push_alloc", "st_push_link", "st_backoff", ok)
          /\ IF ok
             THEN UNCHANGED <<cycle, event>>
             ELSE /\ cycle' = [cycle EXCEPT ![w].events = Append(@, event[w])]
                  /\ event' = [event EXCEPT ![w] = NoEvent]
    /\ UNCHANGED <<cfgv, resv, amount_stored, available_space,
                   monv, logv, status, crashed, removed>>

\* The rest of event_queue_push; the thread then sleeps (lines 101, 113).
run_push_link(w) ==
    /\ \/ event_queue_push_link(w, "cv_push_link", "cv_backoff")
       \/ event_queue_push_link(w, "st_push_link", "st_backoff")
    /\ cycle' = [cycle EXCEPT ![w].events = Append(@, event[w])]
    /\ event' = [event EXCEPT ![w] = NoEvent]
    /\ UNCHANGED <<cfgv, resv, amount_stored, available_space,
                   monv, logv, status, crashed, removed>>

\* The sleep of line 101 or 113 ends.
run_backoff(w) ==
    /\ ~crashed
    /\ pc[w] \in {"cv_backoff", "st_backoff"}
    /\ pc' = [pc EXCEPT ![w] = IF pc[w] = "cv_backoff" THEN SecondIf(amount_stored[w])
                                ELSE "loop"]
    /\ UNCHANGED <<cfgv, resv, locv, quev, monv, logv, status, crashed, cycle, removed>>

\* The monitor thread (manager.c, not among the sources) polls the queue and
\* handles what it pops at once: its own copy of the Event is left out here.
monitor_pop_wait ==
    /\ event_queue_pop_wait
    /\ UNCHANGED <<cfgv, resv, locv, logv, mevent, mret, status, pc, crashed, cycle, removed>>

monitor_pop_read ==
    /\ event_queue_pop_read
    /\ UNCHANGED <<cfgv, resv, locv, logv, mevent, mret, status, pc, crashed, cycle, removed>>

monitor_pop_unlink ==
    /\ event_queue_pop_unlink
    /\ UNCHANGED <<cfgv, resv, locv, logv, mevent, mret, status, pc, crashed, cycle, removed>>

RunStep(w) ==
    \/ system_thread(w)
    \/ convert_wait(w)
    \/ convert_check(w)
    \/ convert_consume(w)
    \/ convert_finish(w)
    \/ report_consume_failure(w)
    \/ store_wait(w)
    \/ store_check(w)
    \/ store_update(w)
    \/ report_store_failure(w)
    \/ run_push_wait(w)
    \/ run_push_alloc(w)
    \/ run_push_link(w)
    \/ run_backoff(w)

MonitorStep ==
    \/ monitor_pop_wait
    \/ monitor_pop_read
    \/ monitor_pop_unlink

Next ==
    \/ \E w \in Workers : RunStep(w)
    \/ \E w \in Workers : NullDeref(w)
    \/ \E w \in Workers : SetTerminate(w)
    \/ MonitorStep

Spec == Init /\ [][Next]_vars

\* ------------------------------------------------------ the queue on its own
\* QSpec: threads that call event_queue_push with Events of any priority,
\* and one thread that pops; `pushed` and `popped` log what went in and what
\* the caller of event_queue_pop got back.  Every Event made is distinct
\* (its amount field numbers it).
QInit ==
    /\ consumed = [w \in Workers |-> ResourceAmount(NULL, 0)]
    /\ produced = [w \in Workers |-> ResourceAmount(NULL, 0)]
    /\ max_capacity = Capacities
    /\ amount = [r \in Resources |-> 0]
    /\ initial_amount = amount
    /\ scenario = NoScenario
    /\ pc = [w \in Workers |-> "p_idle"]
    /\ InitCommon

producer_make(p) ==
    /\ pc[p] = "p_idle"
    /\ created < MaxPushes
    /\ \E priority \in 1..MaxPrio :
          event' = [event EXCEPT ![p] = event_init(p, NULL, NONE, priority, created + 1)]
    /\ created' = created + 1
    /\ pc' = [pc EXCEPT ![p] = "p_push_wait"]
    /\ UNCHANGED <<cfgv, resv, amount_stored, available_space, quev, monv, pushed,
                   popped, runs, status, crashed, cycle, removed>>

producer_push_wait(p) ==
    /\ event_queue_push_wait(p, "p_push_wait", "p_push_alloc")
    /\ UNCHANGED <<cfgv, resv, locv, monv, logv, status, crashed, cycle, removed>>

producer_push_alloc(p) ==
    /\ \E ok \in BOOLEAN :
          event_queue_push_alloc(p, "p_push_alloc", "p_push_link", "p_idle", ok)
    /\ UNCHANGED <<cfgv, resv, locv, monv, logv, status, crashed, cycle, removed>>

producer_push_link(p) ==
    /\ event_queue_push_link(p, "p_push_link", "p_idle")
    /\ pushed' = Append(pushed, event[p])
    /\ UNCHANGED <<cfgv, resv, locv, monv, popped, created, runs, status, crashed, cycle,
                   removed>>

consumer_pop_wait ==
    /\ event_queue_pop_wait
    /\ UNCHANGED <<cfgv, resv, locv, logv, mevent, mret, status, pc, crashed, cycle, removed>>

\* An empty queue: event_queue_pop returns 0 and leaves *event alone.
consumer_pop_read ==
    /\ event_queue_pop_read
    /\ mret' = IF queue = <<>> THEN 0 ELSE mret
    /\ UNCHANGED <<cfgv, resv, locv, logv, mevent, status, pc, crashed, cycle, removed>>

consumer_pop_unlink ==
    /\ event_queue_pop_unlink
    /\ mevent' = PopEvent(seen[Monitor])
    /\ mret' = 1
    /\ popped' = Append(popped, mevent')
    /\ UNCHANGED <<cfgv, resv, locv, pushed, created, runs, status, pc, crashed, cycle,
                   removed>>

QNext ==
    \/ \E p \in Workers : producer_make(p)
    \/ \E p \in Workers : producer_push_wait(p)
    \/ \E p \in Workers : producer_push_alloc(p)
    \/ \E p \in Workers : producer_push_link(p)
    \/ consumer_pop_wait
    \/ consumer_pop_read
    \/ consumer_pop_unlink

QSpec == QInit /\ [][QNext]_vars

\* ------------------------------------------------------- progress of Systems
\* LiveSpec: the chain of load_data (a System producing into a Resource that
\* another System consumes), every thread scheduled again and again: a System
\* thread that can take a step infinitely often takes one, and so does the
\* monitor.
LiveInit ==
    /\ \E t \in Topologies :
            /\ t.produced[2].resource = NULL
            /\ t.consumed[1].resource # NULL
            /\ consumed = t.consumed
            /\ produced = t.produced
    /\ max_capacity = Capacities
    /\ amount \in {a \in [Resources -> 0..MaxCap] : \A r \in Resources : a[r] <= Capacities[r]}
    /\ initial_amount = amount
    /\ scenario = NoScenario
    /\ pc = [w \in Workers |-> "loop"]
    /\ InitCommon

LiveNext ==
    \/ \E w \in Workers : RunStep(w)
    \/ \E w \in Workers : SetTerminate(w)
    \/ MonitorStep

LiveSpec ==
    /\ LiveInit
    /\ [][LiveNext]_vars
    /\ \A w \in Workers : SF_vars(RunStep(w))
    /\ WF_vars(MonitorStep)

\* ---------------------------------------------------------------- scenarios
\* ScenarioSpec: the Resources and Systems of load_data, one scenario at a
\* time, each System driven for a fixed number of system_run calls instead of
\* until TERMINATE.  Resource 1 is the Resource of the scenario, Resource 2 is
\* Distance.
\*   A: Fuel 1000 of 1000; one System consuming 5 Fuel per call (alone, or as
\*      Propulsion does, producing 25 Distance), 201 calls.
\*   B: Energy 30 of 50; one System producing 10 Energy per call and consuming
\*      nothing, 3 calls.
\*   C: Oxygen 20 of 50; System 1 consuming 1 Oxygen per call and producing
\*      nothing (Crew), System 2 producing 4 Oxygen per call and consuming
\*      nothing, 1000 calls each.
Scenarios ==
    { [name |-> "A", cycles |-> 201, threads |-> {1},
       amount |-> (1 :> 1000 @@ 2 :> 0), max_capacity |-> (1 :> 1000 @@ 2 :> 5000),
       consumed |-> (1 :> ResourceAmount(1, 5) @@ 2 :> ResourceAmount(NULL, 0)),
       produced |-> (1 :> ResourceAmount(NULL, 0) @@ 2 :> ResourceAmount(NULL, 0))],
      [name |-> "A", cycles |-> 201, threads |-> {1},
       amount |-> (1 :> 1000 @@ 2 :> 0), max_capacity |-> (1 :> 1000 @@ 2 :> 5000),
       consumed |-> (1 :> ResourceAmount(1, 5) @@ 2 :> ResourceAmount(NULL, 0)),
       produced |-> (1 :> ResourceAmount(2, 25) @@ 2 :> ResourceAmount(NULL, 0))],
      [name |-> "B", cycles |-> 3, threads |-> {1},
       amount |-> (1 :> 30 @@ 2 :> 0), max_capacity |-> (1 :> 50 @@ 2 :> 5000),
       consumed |-> (1 :> ResourceAmount(NULL, 0) @@ 2 :> ResourceAmount(NULL, 0)),
       produced |-> (1 :> ResourceAmount(1, 10) @@ 2 :> ResourceAmount(NULL, 0))],
      [name |-> "C", cycles |-> 1000, threads |-> {1, 2},
       amount |-> (1 :> 20 @@ 2 :> 0), max_capacity |-> (1 :> 50 @@ 2 :> 5000),
       consumed |-> (1 :> ResourceAmount(1, 1) @@ 2 :> ResourceAmount(NULL, 0)),
       produced |-> (1 :> ResourceAmount(NULL, 0) @@ 2 :> ResourceAmount(1, 4))] }

ScenarioInit ==
    /\ \E sc \in Scenarios :
            /\ scenario = [name |-> sc.name, cycles |-> sc.cycles]
            /\ consumed = sc.consumed
            /\ produced = sc.produced
            /\ max_capacity = sc.max_capacity
            /\ amount = sc.amount
            /\ pc = [w \in Workers |-> IF w \in sc.threads THEN "loop" ELSE "done"]
    /\ initial_amount = amount
    /\ InitCommon

\* The driver of a scenario: system_run, scenario.cycles times.  The step is
\* the call and the first `if` of system_run, as in system_thread.
scenario_thread(w) ==
    /\ ~crashed
    /\ pc[w] = "loop"
    /\ IF runs[w] >= scenario.cycles
       THEN /\ pc' = [pc EXCEPT ![w] = "done"]
            /\ UNCHANGED <<cycle, runs>>
       ELSE /\ pc' = [pc EXCEPT ![w] = IF amount_stored[w] = 0 THEN "cv_wait"
                                       ELSE SecondIf(amount_stored[w])]
            /\ cycle' = [cycle EXCEPT ![w] = NewCycle]
            /\ runs' = [runs EXCEPT ![w] = @ + 1]
    /\ UNCHANGED <<cfgv, resv, locv, quev, monv, pushed, popped, created, status,
                   crashed, removed>>

\* A step inside a call of system_run (any step of RunStep but the loop test
\* of system_thread, which the driver replaces).
scenario_run(w) ==
    /\ pc[w] # "loop"
    /\ RunStep(w)

ScenarioNext ==
    \/ \E w \in Workers : scenario_thread(w)
    \/ \E w \in Workers : scenario_run(w)
    \/ \E w \in Workers : NullDeref(w)
    \/ MonitorStep

ScenarioSpec == ScenarioInit /\ [][ScenarioNext]_vars

\* ================================================================== claims
Range(q) == {q[i] : i \in 1..Len(q)}

Count(e, q) == Cardinality({i \in 1..Len(q) : q[i] = e})

IsPrefix(p, q) == Len(p) <= Len(q) /\ \A i \in 1..Len(p) : p[i] = q[i]

\* C1: in every reachable state every Resource has 0 <= amount <= max_capacity,
\* whatever the interleaving of the conversions and stores of the Systems
\* that share it.
C1_CapacityInvariant ==
    \A r \in Resources : 0 <= amount[r] /\ amount[r] <= max_capacity[r]

\* A store has filled a Resource to its capacity and left a remainder, while
\* another System has consumed from that Resource.
C1_Witness ==
    \E w \in Workers, v \in Workers :
        /\ w # v
        /\ cycle[w].st = STATUS_CAPACITY
        /\ amount[produced[w].resource] = max_capacity[produced[w].resource]
        /\ consumed[v].resource = produced[w].resource
        /\ cycle[v].cv = STATUS_OK

\* Position of an Event in the log of pushes (Events of QSpec are distinct).
PushIndex(e, log) == CHOOSE i \in 1..Len(log) : log[i] = e

QueueOrdered(q, log) ==
    \A i, j \in 1..Len(q) :
        i < j => /\ q[i].priority >= q[j].priority
                 /\ q[i].priority = q[j].priority => PushIndex(q[i], log) < PushIndex(q[j], log)

\* C2: after every step the list is in non-increasing priority from head to
\* tail with Events of equal priority in the order of their pushes, and every
\* pop hands out an Event that no Event left in the queue precedes (none has
\* a higher priority, none of equal priority was pushed earlier), so pops
\* with no push in between come in non-increasing priority and FIFO among
\* equals.
C2_PriorityOrder ==
    [][/\ QueueOrdered(queue', pushed')
       /\ popped' # popped =>
             LET e == popped'[Len(popped')]
             IN  \A i \in 1..Len(queue') :
                    /\ queue'[i].priority <= e.priority
                    /\ queue'[i].priority = e.priority =>
                          PushIndex(e, pushed') < PushIndex(queue'[i], pushed')]_vars

\* An Event pushed third was popped first, ahead of two Events of equal
\* priority that wait in the order of their pushes.
C2_Witness ==
    /\ Len(popped) = 1
    /\ Len(queue) = 2
    /\ queue[1].priority = queue[2].priority
    /\ popped[1].priority > queue[1].priority
    /\ PushIndex(popped[1], pushed) = 3

\* C3: the queue holds as many Events as were pushed and not yet popped, and
\* the Events popped together with those in the queue are exactly the Events
\* pushed, each as often as it was pushed.
C3_Conservation ==
    /\ Len(queue) = Len(pushed) - Len(popped)
    /\ Range(popped \o queue) \subseteq Range(pushed)
    /\ \A e \in Range(pushed) : Count(e, popped \o queue) = Count(e, pushed)

\* Both producers have pushed, something was popped and something is left.
C3_Witness ==
    /\ Len(pushed) = MaxPushes
    /\ \E i, j \in 1..Len(pushed) : pushed[i].system # pushed[j].system
    /\ Len(popped) >= 1
    /\ Len(queue) >= 1

\* C4: for a Resource no System produces into, the total taken by successful
\* consumes never exceeds the initial amount, and a System about to decrement
\* finds at least its consumed.amount there.
C4_NoDoubleSpend ==
    \A r \in Resources :
        NoProducer(r) =>
            /\ removed[r] <= initial_amount[r]
            /\ \A w \in Workers :
                  (pc[w] = "cv_dec" /\ consumed[w].resource = r) =>
                      amount[r] >= consumed[w].amount

\* Two Systems consume a Resource nobody fills; all of it was taken and one
\* of them has found it empty.
C4_Witness ==
    \E r \in Resources, w \in Workers, v \in Workers :
        /\ w # v
        /\ NoProducer(r)
        /\ consumed[w].resource = r
        /\ consumed[v].resource = r
        /\ initial_amount[r] > 0
        /\ removed[r] = initial_amount[r]
        /\ cycle[w].cv = STATUS_EMPTY

\* C5 (as claimed): a System whose store returned STATUS_CAPACITY gets to
\* try the store again (it passes sem_wait and reads the free space) unless
\* it is told to terminate first, and a System waiting for a Resource's
\* semaphore does not wait for ever.
C5_RetryAfterCapacity ==
    \A w \in Workers :
        /\ (pc[w] = "st_event") ~> (pc[w] = "st_check" \/ pc[w] = "done")
        /\ (pc[w] \in {"cv_wait", "st_wait"}) ~> (pc[w] \notin {"cv_wait", "st_wait"})

\* C6 (as claimed): a System whose status is TERMINATE eventually returns
\* from system_thread.
C6_Termination ==
    \A w \in Workers : (status[w] = TERMINATE) ~> (pc[w] = "done")

\* The Events a finished system_run call must have pushed, given the results
\* of its consume and its store.
ExpectedEvents(w) ==
    (IF cycle[w].cv \in {STATUS_EMPTY, STATUS_INSUFFICIENT}
     THEN <<[system |-> w, resource |-> consumed[w].resource, status |-> cycle[w].cv,
             priority |-> PRIORITY_HIGH]>>
     ELSE <<>>)
    \o
    (IF cycle[w].st = STATUS_CAPACITY
     THEN <<[system |-> w, resource |-> produced[w].resource, status |-> STATUS_CAPACITY,
             priority |-> PRIORITY_LOW]>>
     ELSE <<>>)

PushedEvents(w) ==
    [i \in 1..Len(cycle[w].events) |->
        [system |-> cycle[w].events[i].system, resource |-> cycle[w].events[i].resource,
         status |-> cycle[w].events[i].status, priority |-> cycle[w].events[i].priority]]

\* C7: the Events a system_run call hands to event_queue_push are, in order,
\* one HIGH Event for its consumed Resource if the consume failed (EMPTY or
\* INSUFFICIENT) and one LOW CAPACITY Event for its produced Resource if the
\* store left something; when the call is over it has pushed exactly those,
\* so none if both succeeded.
C7_FailureReporting ==
    \A w \in Workers :
        /\ cycle[w].cv \in {NONE, STATUS_OK, STATUS_EMPTY, STATUS_INSUFFICIENT}
        /\ cycle[w].st \in {NONE, STATUS_OK, STATUS_CAPACITY}
        /\ IsPrefix(PushedEvents(w), ExpectedEvents(w))
        /\ pc[w] \in {"loop", "done"} => PushedEvents(w) = ExpectedEvents(w)

\* One System has finished a call in which its consume failed, another a call
\* in which consume and store succeeded.
C7_Witness ==
    \E w \in Workers, v \in Workers :
        /\ pc[w] = "loop"
        /\ cycle[w].cv \in {STATUS_EMPTY, STATUS_INSUFFICIENT}
        /\ Len(cycle[w].events) = 1
        /\ pc[v] = "loop"
        /\ cycle[v].cv = STATUS_OK
        /\ cycle[v].st = STATUS_OK
        /\ cycle[v].events = <<>>

\* C8 (as claimed): a System that sleeps (in system_simulate_process_time or
\* in the backoff after a failure) holds no Resource's semaphore.
C8_NoLockAcrossSleep ==
    \A w \in Workers :
        pc[w] \in {"cv_sleep", "cv_backoff", "st_backoff"} => held[w] = {}

\* C9: a store of a into free space s < a fills the Resource to
\* max_capacity, leaves a - s in amount_stored and returns STATUS_CAPACITY;
\* and no step other than the update of a store changes a positive
\* amount_stored.
C9_PartialStore ==
    [][\A w \in Workers :
          LET r == produced[w].resource
              a == amount_stored[w]
              s == max_capacity[r] - amount[r]
          IN  /\ (pc[w] = "st_update" /\ pc'[w] # "st_update" /\ s < a) =>
                    /\ amount'[r] = max_capacity[r]
                    /\ amount_stored'[w] = a - s
                    /\ cycle'[w].st = STATUS_CAPACITY
              /\ (pc[w] # "st_update" /\ a > 0) => amount_stored'[w] = a]_vars

\* A System starts a new cycle still holding the rest of a partial store.
C9_Witness ==
    \E w \in Workers :
        /\ pc[w] = "st_wait"
        /\ cycle[w] = NewCycle
        /\ 0 < amount_stored[w]
        /\ amount_stored[w] < produced[w].amount

\* C10: a consume of n from a Resource holding a: when n <= a it takes n and
\* returns OK; otherwise the amount stays, the result is EMPTY when a = 0 and
\* INSUFFICIENT when 0 < a < n, and amount_stored is 0 and stays 0 until the
\* call of system_run is over.
C10_ConsumeOutcomes ==
    [][\A w \in Workers :
          LET r == consumed[w].resource
              n == consumed[w].amount
          IN  r # NULL =>
                /\ (pc[w] = "cv_check" /\ pc'[w] # "cv_check") =>
                      /\ amount' = amount
                      /\ IF n <= amount[r]
                         THEN pc'[w] = "cv_dec"
                         ELSE /\ pc'[w] = "cv_event"
                              /\ amount[r] = 0 => cycle'[w].cv = STATUS_EMPTY
                              /\ amount[r] > 0 => cycle'[w].cv = STATUS_INSUFFICIENT
                              /\ amount_stored'[w] = 0
                /\ (pc[w] = "cv_dec" /\ pc'[w] # "cv_dec") =>
                      /\ n <= amount[r]
                      /\ amount'[r] = amount[r] - n
                /\ (pc[w] = "cv_sleep" /\ pc'[w] # "cv_sleep") =>
                      /\ cycle'[w].cv = STATUS_OK
                      /\ amount' = amount
                /\ (pc[w] \in {"cv_event", "cv_push_wait", "cv_push_alloc",
                               "cv_push_link", "cv_backoff"}) =>
                      amount_stored'[w] = 0]_vars

\* A consume has found less than it needs in a Resource that is not empty.
C10_Witness ==
    \E w \in Workers :
        /\ pc[w] = "cv_event"
        /\ cycle[w].cv = STATUS_INSUFFICIENT
        /\ amount[consumed[w].resource] > 0
        /\ amount[consumed[w].resource] < consumed[w].amount

\* C11: event_queue_pop on an empty queue does not wait for a push: once it
\* has the queue's semaphore its test of head can always be taken, and on an
\* empty queue it returns 0, leaves the queue empty and its size as it was,
\* leaves the caller's Event as it was, and posts the semaphore, so that the
\* queue is free for the next push or pop.
C11_EmptyPop ==
    /\ [](mpc = "m_pop" => ENABLED consumer_pop_read)
    /\ [][(mpc = "m_pop" /\ queue = <<>> /\ mpc' # "m_pop") =>
            /\ mpc' = "m_idle"
            /\ mret' = 0
            /\ mevent' = mevent
            /\ queue' = <<>>
            /\ size' = size
            /\ eventQueue_mutex' = 1
            /\ qheld' = {}]_vars

\* A pop has found the queue empty after an earlier pop had returned an
\* Event, and a push has taken the semaphore since.
C11_Witness ==
    /\ mret = 0
    /\ mevent # NoEvent
    /\ Len(popped) = 1
    /\ mpc = "m_idle"
    /\ \E p \in Workers : pc[p] = "p_push_link" /\ p \in qheld

\* The Event of Scenario A: Fuel is empty, reported by System 1 with HIGH
\* priority (the Event's amount is the Resource's amount when it was made).
FuelEmpty == event_init(1, 1, STATUS_EMPTY, PRIORITY_HIGH, 0)

\* C14: Scenario A.  The run does not fault; each of the first 200 calls of
\* system_run consumes 5 Fuel and hands no Event to event_queue_push, so
\* Fuel is 1000 - 5k after the k-th call and 0 after the 200th; the 201st
\* call leaves Fuel at 0 and hands exactly one Event to event_queue_push,
\* for Fuel, with status EMPTY and priority HIGH.
C14_ScenarioA ==
    scenario.name = "A" =>
        /\ ~crashed
        /\ runs[1] <= 200 =>
              /\ cycle[1].cv \in {NONE, STATUS_OK}
              /\ cycle[1].events = <<>>
              /\ pc[1] = "loop" => amount[1] = 1000 - 5 * runs[1]
              /\ (pc[1] = "loop" /\ runs[1] >= 1) => cycle[1].cv = STATUS_OK
        /\ runs[1] = 201 =>
              /\ amount[1] = 0
              /\ IsPrefix(cycle[1].events, <<FuelEmpty>>)
              /\ pc[1] \in {"loop", "done"} =>
                    /\ cycle[1].cv = STATUS_EMPTY
                    /\ cycle[1].events = <<FuelEmpty>>

\* The 201st call of Scenario A is over, the Event went into the queue, and
\* (with the System producing Distance) Distance holds what 200 calls made.
C14_Witness ==
    /\ scenario.name = "A"
    /\ runs[1] = 201
    /\ pc[1] = "done"
    /\ cycle[1].events = <<FuelEmpty>>
    /\ queue = <<FuelEmpty>>
    /\ produced[1].resource = 2
    /\ amount[2] = 5000

\* C13 (as claimed): Scenario B.  The run does not fault, and the three
\* calls of system_run leave Energy at 40, at 50, and at 50 with 10 kept in
\* amount_stored and exactly one Event, CAPACITY with LOW priority, handed
\* to event_queue_push.
C13_ScenarioB ==
    scenario.name = "B" =>
        /\ ~crashed
        /\ pc[1] \in {"loop", "done"} =>
              /\ runs[1] = 1 => amount[1] = 40
              /\ runs[1] = 2 => amount[1] = 50
              /\ runs[1] = 3 =>
                    /\ amount[1] = 50
                    /\ amount_stored[1] = 10
                    /\ cycle[1].events =
                          <<event_init(1, 1, STATUS_CAPACITY, PRIORITY_LOW, 50)>>

\* C12 (as claimed): Scenario C.  The run does not fault, Oxygen stays
\* within 0..50 in every state, and when both Systems have made their 1000
\* calls Oxygen is 50.
C12_ScenarioC ==
    scenario.name = "C" =>
        /\ ~crashed
        /\ 0 <= amount[1] /\ amount[1] <= 50
        /\ (\A w \in Workers : pc[w] = "done") => amount[1] = 50

\* C15 (as claimed): whatever they return, system_convert,
\* system_store_resources, event_queue_push and event_queue_pop have posted
\* the semaphore they took: a System that is not inside system_convert or
\* system_store_resources holds no Resource's semaphore, and a thread that
\* is not inside event_queue_push or event_queue_pop does not hold the
\* queue's.
C15_LocksReleased ==
    /\ \A w \in Workers :
          /\ pc[w] \notin {"cv_check", "cv_dec", "cv_sleep", "st_check", "st_update"} =>
                held[w] = {}
          /\ pc[w] \notin {"cv_push_alloc", "cv_push_link", "st_push_alloc",
                           "st_push_link"} => w \notin qheld
    /\ mpc = "m_idle" => Monitor \notin qheld

\* C16 (as claimed): for a System whose consumed Resource is null,
\* system_convert does not fault and takes no Resource's semaphore, its
\* result is never a failure, and when it has returned with a produced
\* Resource amount_stored is produced.amount.
C16_NullConsume ==
    \A w \in Workers :
        consumed[w].resource = NULL =>
            /\ ~crashed
            /\ cycle[w].cv \in {NONE, STATUS_OK}
            /\ pc[w] \in {"cv_wait", "cv_check", "cv_dec", "cv_sleep"} => held[w] = {}
            /\ (cycle[w].cv = STATUS_OK /\ cycle[w].st = NONE
                   /\ produced[w].resource # NULL) =>
                  amount_stored[w] = produced[w].amount

\* The Systems that took the semaphore of Resource r and have not posted it.
Holders(r) == {w \in Workers : r \in held[w]}

\* C17: the operations on one Resource exclude each other.  The semaphore
\* of a Resource is 0 or 1, and 0 exactly while one System has taken it; no
\* two Systems are between sem_wait and sem_post of the same Resource; a
\* System inside system_convert or system_store_resources holds the
\* semaphore of the Resource it works on; and what it read in its test is
\* still true when it updates (the amount it is about to take is there, the
\* free space it is about to fill is free).
C17_MutualExclusion ==
    /\ \A r \in Resources :
          /\ Cardinality(Holders(r)) <= 1
          /\ resource_mutex[r] = 1 - Cardinality(Holders(r))
    /\ \A w \in Workers :
          /\ pc[w] \in {"cv_check", "cv_dec", "cv_sleep"} =>
                consumed[w].resource \in held[w]
          /\ pc[w] \in {"st_check", "st_update"} => produced[w].resource \in held[w]
          /\ pc[w] = "cv_dec" => amount[consumed[w].resource] >= consumed[w].amount
          /\ pc[w] = "st_update" =>
                available_space[w] =
                    max_capacity[produced[w].resource] - amount[produced[w].resource]

\* One System is about to update a Resource while another waits for the
\* same Resource's semaphore.
C17_Witness ==
    \E w \in Workers, v \in Workers :
        \E r \in Resources :
            /\ w # v
            /\ r \in held[w]
            /\ \/ pc[w] = "cv_dec" /\ consumed[w].resource = r
               \/ pc[w] = "st_update" /\ produced[w].resource = r
            /\ \/ pc[v] = "cv_wait" /\ consumed[v].resource = r
               \/ pc[v] = "st_wait" /\ produced[v].resource = r
            /\ resource_mutex[r] = 0

\* C18: a System never holds the semaphores of two Resources at once, also
\* when its consumed and its produced Resource differ and also after a store
\* that left something in amount_stored.
C18_OneLockAtATime ==
    \A w \in Workers : Cardinality(held[w]) <= 1

\* A System whose consumed and produced Resources differ has had a store
\* that did not fit, and a later call of system_run has started.
C18_Witness ==
    \E w \in Workers :
        /\ consumed[w].resource # NULL
        /\ produced[w].resource # NULL
        /\ consumed[w].resource # produced[w].resource
        /\ amount_stored[w] > 0
        /\ held[w] = {produced[w].resource}
        /\ pc[w] = "st_wait"
        /\ cycle[w] = NewCycle
        /\ amount[consumed[w].resource] >= consumed[w].amount

\* C19: in a call of system_run a System is inside system_convert only with
\* amount_stored = 0 and inside system_store_resources only with
\* amount_stored > 0; so a System with output waiting to be stored takes
\* nothing from its consumed Resource.
C19_PhaseDiscipline ==
    /\ [](\A w \in Workers :
            /\ pc[w] \in {"cv_wait", "cv_check", "cv_dec", "cv_sleep"} =>
                  amount_stored[w] = 0
            /\ pc[w] \in {"st_wait", "st_check", "st_update"} => amount_stored[w] > 0)
    /\ [][\A w \in Workers :
             (amount_stored[w] > 0 /\ consumed[w].resource # NULL /\ pc'[w] # pc[w]) =>
                 amount'[consumed[w].resource] >= amount[consumed[w].resource]]_vars

\* A System with output left over has started a call and gone to the store
\* without converting, while another System, with nothing stored, is inside
\* system_convert.
C19_Witness ==
    \E w \in Workers, v \in Workers :
        /\ pc[w] = "st_wait"
        /\ cycle[w].cv = NONE
        /\ amount_stored[w] > 0
        /\ pc[v] = "cv_check"
        /\ amount_stored[v] = 0

\* C20 (as claimed): from event_queue_init on, the queue's size field is the
\* number of successful pushes minus the number of successful pops, which is
\* the number of nodes on the list from head.
C20_SizeCounter ==
    /\ size = Len(pushed) - Len(popped)
    /\ size = Len(queue)

\* C21: a push whose node allocation fails returns without having changed
\* the queue: the list, its order and size are as before, nothing is logged
\* as inserted, and the queue's semaphore is posted, so that the threads
\* waiting for it can go on.
C21_AllocFailure ==
    [][\A p \in Workers :
          (pc[p] = "p_push_alloc" /\ pc'[p] = "p_idle") =>
              /\ queue' = queue
              /\ size' = size
              /\ pushed' = pushed
              /\ eventQueue_mutex' = 1
              /\ qheld' = {}]_vars

\* A thread's first Event was lost to a failed allocation; its second push
\* went in afterwards and has been popped.
C21_Witness ==
    \E p \in Workers :
        /\ created = 2
        /\ event[p].amount = 2
        /\ \A o \in Workers \ {p} : event[o] = NoEvent
        /\ pushed = <<event[p]>>
        /\ popped = pushed
        /\ queue = <<>>
        /\ mret = 1

\* C22: a System's amount_stored is always between 0 and produced.amount,
\* and 0 when it produces into no Resource; it grows only at the end of a
\* successful system_convert, from 0 to produced.amount, and it shrinks only
\* inside system_store_resources.
C22_StoredBounds ==
    /\ [](\A w \in Workers :
            /\ 0 <= amount_stored[w]
            /\ amount_stored[w] <= produced[w].amount
            /\ produced[w].resource = NULL => amount_stored[w] = 0)
    /\ [][\A w \in Workers :
             /\ amount_stored'[w] > amount_stored[w] =>
                   /\ pc[w] = "cv_sleep"
                   /\ cycle'[w].cv = STATUS_OK
                   /\ amount_stored[w] = 0
                   /\ amount_stored'[w] = produced[w].amount
             /\ amount_stored'[w] < amount_stored[w] =>
                   pc[w] \in {"st_check", "st_update"}]_vars

\* One System is left with part of its output after a store, and a System
\* that produces into no Resource has finished a successful conversion.
C22_Witness ==
    \E w \in Workers, v \in Workers :
        /\ pc[w] = "st_event"
        /\ 0 < amount_stored[w]
        /\ amount_stored[w] < produced[w].amount
        /\ produced[v].resource = NULL
        /\ pc[v] = "loop"
        /\ cycle[v].cv = STATUS_OK
        /\ amount_stored[v] = 0

\* The Events a System has made or handed over, and those in the queue.
EventsMade ==
    Range(queue) \cup {event[w] : w \in Workers}
        \cup UNION {Range(cycle[w].events) : w \in Workers}

\* C23: every Event with status CAPACITY carries as amount the max_capacity
\* of its Resource, whatever the other Systems that consume from or produce
\* into that Resource do meanwhile (Resources start with amount <=
\* max_capacity).
C23_CapacitySnapshot ==
    \A e \in EventsMade :
        e.status = STATUS_CAPACITY =>
            /\ e.resource # NULL
            /\ e.amount = max_capacity[e.resource]

\* A CAPACITY Event is in the queue while another System that consumes from
\* the Event's Resource is waiting for that Resource's semaphore.
C23_Witness ==
    \E i \in 1..Len(queue) : \E v \in Workers :
        /\ queue[i].status = STATUS_CAPACITY
        /\ queue[i].amount = max_capacity[queue[i].resource]
        /\ v # queue[i].system
        /\ consumed[v].resource = queue[i].resource
        /\ pc[v] = "cv_wait"

====
